---- MODULE Spec2Model ----
(***************************************************************************)
(* Model of the two route handlers of the psychometric-test application:   *)
(*   src/src/app/api/analyze-results/route.ts  (scoring handler, POST)     *)
(*   src/src/app/api/generate-pdf/route.ts     (rendering handler, POST)   *)
(* One request is followed at a time (the handlers keep no state between   *)
(* requests).  Texts are sequences of tokens, JavaScript values are        *)
(* records tagged with their type.                                         *)
(***************************************************************************)
EXTENDS Integers, Sequences, FiniteSets, TLC

VARIABLES
  handler,      \* which route is serving the request: "none", "analyze", "pdf"
  pc,           \* position of the handler: "idle", "awaiting", "launching", "printing", "done"
  request,      \* the request body (studentData or results)
  modelIdx,     \* index in models of the attempt the loop is awaiting (0: none)
  created,      \* the models passed to chat.completions.create, in call order
  httpCalls,    \* model -> number of HTTP requests the client has sent for it
  attempts,     \* model -> "idle", "pending", "fulfilled", or the message its race rejected with
  inflight,     \* models whose create() promise has not settled yet
  timers,       \* models whose 45 s setTimeout has not fired yet
  completion,   \* the variable completion: NoCompletion or [model, content]
  sent,         \* the object the collaborator wrote into the content of completion
  lastError,    \* the variable lastError: NoError or the error caught last
  browser,      \* [launched, open, pdfs, buffer]: launches, browsers not closed,
                \* page.pdf calls, and what page.pdf returned
  response,     \* NoResponse or the response returned to the caller
  userPrompt,   \* the TEST PERFORMANCE lines of the prompt passed to create()
  htmlContent   \* the constant htmlContent: what generateHTMLContent returned

vars == <<handler, pc, request, modelIdx, created, httpCalls, attempts, inflight,
          timers, completion, sent, lastError, browser, response, userPrompt,
          htmlContent>>

----------------------------------------------------------------------------
(* Bounds of the model *)

\* longest run of free text (tokens) of a reply, alone or before its JSON object
MaxProse == 3
\* longest run of free text (tokens) after the JSON object of a reply
MaxTail == 1
\* largest number of required fields of a generated object that deviate from
\* the canonical complete report (absent, lowerCamelCase key, or falsy value)
MaxOdd == 2
\* longest narrative string (characters) posted to the rendering route
MaxChars == 3
\* largest number of elements of a narrative array posted to the rendering route
MaxItems == 2
\* longest student name (characters) posted to the rendering route
MaxName == 3
\* largest number of country-fit entries posted to the rendering route
MaxCountries == 3
\* largest total of a category result posted to the scoring route; correct
\* ranges from -1 to one more than it
MaxTotal == 5
\* largest number of category results of a body whose prompt is examined
MaxTopics == 1

----------------------------------------------------------------------------
(* JavaScript values: every value carries all six fields so that any two    *)
(* values can be compared.  A string is written as a literal (s) or spelled *)
(* character by character (c); an array holds its elements in a.            *)

NoMembers == [k \in {} |-> 0]

Undefined == [t |-> "undefined", n |-> 0, s |-> "", o |-> NoMembers, a |-> <<>>, c |-> <<>>]
Num(n)    == [t |-> "number", n |-> n, s |-> "", o |-> NoMembers, a |-> <<>>, c |-> <<>>]
Str(s)    == [t |-> "string", n |-> 0, s |-> s, o |-> NoMembers, a |-> <<>>, c |-> <<>>]
Obj(m)    == [t |-> "object", n |-> 0, s |-> "", o |-> m, a |-> <<>>, c |-> <<>>]
\* a string given by its characters
Text(cs)  == [t |-> "string", n |-> 0, s |-> "", o |-> NoMembers, a |-> <<>>, c |-> cs]
\* an array given by its elements
Arr(items) == [t |-> "array", n |-> 0, s |-> "", o |-> NoMembers, a |-> items, c |-> <<>>]

\* JavaScript truthiness (the operand of ! and ||)
Truthy(v) ==
  CASE v.t = "undefined" -> FALSE
    [] v.t = "number"    -> v.n # 0
    [] v.t = "string"    -> v.s # "" \/ v.c # <<>>
    [] OTHER             -> TRUE

\* property read o[k] of a parsed object: undefined when the key is absent
Get(o, k) == IF k \in DOMAIN o THEN o[k] ELSE Undefined

\* a || b
OrElse(a, b) == IF Truthy(a) THEN a ELSE b

----------------------------------------------------------------------------
(* Field names of the report, in the two spellings *)

Fields == <<"name", "scores", "index", "level", "strengths", "gaps", "recommendations">>

Canonical(f) ==
  CASE f = "name"            -> "Student Name"
    [] f = "scores"          -> "Scores"
    [] f = "index"           -> "Overall Readiness Index"
    [] f = "level"           -> "Readiness Level"
    [] f = "strengths"       -> "Strengths"
    [] f = "gaps"            -> "Gaps"
    [] f = "recommendations" -> "Recommendations"

Camel(f) ==
  CASE f = "name"            -> "studentName"
    [] f = "scores"          -> "scores"
    [] f = "index"           -> "overallIndex"
    [] f = "level"           -> "readinessLevel"
    [] f = "strengths"       -> "strengths"
    [] f = "gaps"            -> "gaps"
    [] f = "recommendations" -> "recommendations"

FieldSet == {Fields[i] : i \in 1..Len(Fields)}

\* order in which a serializer writes the members of an object
KeyOrder ==
  <<"Student Name", "studentName", "Scores", "scores",
    "Financial Planning", "Support System",
    "Overall Readiness Index", "overallIndex",
    "Readiness Level", "readinessLevel",
    "Strengths", "strengths", "Gaps", "gaps",
    "Recommendations", "recommendations">>

----------------------------------------------------------------------------
(* Texts: sequences of tokens.  "{" and "}" are the brace characters, "w"   *)
(* is any run of other characters outside a JSON value, "key" is a member   *)
(* name with its colon, "val" a scalar literal (strings are opaque).        *)

LB        == [c |-> "{", k |-> "", v |-> Undefined]
RB        == [c |-> "}", k |-> "", v |-> Undefined]
W         == [c |-> "w", k |-> "", v |-> Undefined]
KeyTok(k) == [c |-> "key", k |-> k, v |-> Undefined]
ValTok(v) == [c |-> "val", k |-> "", v |-> v]

RECURSIVE SerializeMembers(_, _)
\* JSON text of the members of m with keys KeyOrder[i..], nested objects included
SerializeMembers(m, i) ==
  IF i > Len(KeyOrder) THEN <<>>
  ELSE LET k == KeyOrder[i] IN
       IF k \notin DOMAIN m THEN SerializeMembers(m, i + 1)
       ELSE <<KeyTok(k)>>
            \o (IF m[k].t = "object"
                  THEN <<LB>> \o SerializeMembers(m[k].o, 1) \o <<RB>>
                  ELSE <<ValTok(m[k])>>)
            \o SerializeMembers(m, i + 1)

\* JSON.stringify of an object
Stringify(m) == <<LB>> \o SerializeMembers(m, 1) \o <<RB>>

ParseFail == [ok |-> FALSE, v |-> Undefined, next |-> 0]

RECURSIVE ParseValue(_, _), ParseMembers(_, _, _)
\* one JSON value starting at s[i]: [ok, v, next]
ParseValue(s, i) ==
  IF i > Len(s) THEN ParseFail
  ELSE IF s[i].c = "val" THEN [ok |-> TRUE, v |-> s[i].v, next |-> i + 1]
  ELSE IF s[i].c = "{" THEN ParseMembers(s, i + 1, NoMembers)
  ELSE ParseFail

\* the members of an object after its "{", up to and including its "}"
ParseMembers(s, i, acc) ==
  IF i > Len(s) THEN ParseFail
  ELSE IF s[i].c = "}" THEN [ok |-> TRUE, v |-> Obj(acc), next |-> i + 1]
  ELSE IF s[i].c = "key"
    THEN LET r == ParseValue(s, i + 1) IN
         IF r.ok
           THEN ParseMembers(s, r.next,
                  [k \in (DOMAIN acc) \cup {s[i].k} |->
                     IF k = s[i].k THEN r.v ELSE acc[k]])
           ELSE ParseFail
  ELSE ParseFail

\* JSON.parse(s): the whole of s must be one value; otherwise a SyntaxError
JSONparse(s) ==
  LET r == ParseValue(s, 1) IN
  IF r.ok /\ r.next = Len(s) + 1 THEN [ok |-> TRUE, v |-> r.v]
  ELSE [ok |-> FALSE, v |-> Undefined]

----------------------------------------------------------------------------
(* Strings character by character: what trim, split, replace and            *)
(* toLowerCase do                                                           *)

UpperCase == <<"A", "B", "C", "D", "E", "F", "G", "H", "I", "J", "K", "L", "M",
               "N", "O", "P", "Q", "R", "S", "T", "U", "V", "W", "X", "Y", "Z">>
LowerCase == <<"a", "b", "c", "d", "e", "f", "g", "h", "i", "j", "k", "l", "m",
               "n", "o", "p", "q", "r", "s", "t", "u", "v", "w", "x", "y", "z">>
Digits    == {"0", "1", "2", "3", "4", "5", "6", "7", "8", "9"}

\* \s of a regular expression
IsSpace(ch) == ch = " "
\* \d of a regular expression
IsDigit(ch) == ch \in Digits
IsLetter(ch) ==
  \E i \in 1..Len(UpperCase) : ch = UpperCase[i] \/ ch = LowerCase[i]
IsAlnum(ch) == IsLetter(ch) \/ IsDigit(ch)

\* the character class [.!?] of generate-pdf/route.ts 203
SentenceEnd == {".", "!", "?"}
\* the character class [,;] of generate-pdf/route.ts 204
ListSeparator == {",", ";"}

\* the characters of the string literals the model uses
Spell(s) ==
  CASE s = "Asha" ->
         <<"A", "s", "h", "a">>
    [] s = "Budgeting" ->
         <<"B", "u", "d", "g", "e", "t", "i", "n", "g">>
    [] s = "Visa process" ->
         <<"V", "i", "s", "a", " ", "p", "r", "o", "c", "e", "s", "s">>
    [] s = "Start a savings plan" ->
         <<"S", "t", "a", "r", "t", " ", "a", " ", "s", "a", "v", "i", "n", "g", "s", " ", "p", "l", "a", "n">>
    [] s = "Information not available" ->
         <<"I", "n", "f", "o", "r", "m", "a", "t", "i", "o", "n", " ", "n", "o", "t", " ", "a", "v", "a", "i", "l", "a", "b", "l", "e">>
    [] s = "Invalid input format" ->
         <<"I", "n", "v", "a", "l", "i", "d", " ", "i", "n", "p", "u", "t", " ", "f", "o", "r", "m", "a", "t">>

\* the characters of a string value
Chars(v) == IF v.s # "" THEN Spell(v.s) ELSE v.c

\* String.prototype.toLowerCase
ToLowerCase(cs) ==
  [i \in 1..Len(cs) |->
     IF \E j \in 1..Len(UpperCase) : cs[i] = UpperCase[j]
       THEN LowerCase[CHOOSE j \in 1..Len(UpperCase) : cs[i] = UpperCase[j]]
       ELSE cs[i]]

\* String.prototype.trim
Trim(cs) ==
  LET solid == {i \in 1..Len(cs) : ~IsSpace(cs[i])} IN
  IF solid = {} THEN <<>>
  ELSE LET first == CHOOSE i \in solid : \A j \in solid : i <= j
           last  == CHOOSE i \in solid : \A j \in solid : j <= i
       IN SubSeq(cs, first, last)

\* s.trim().length > 0
NonBlank(cs) == Trim(cs) # <<>>

RECURSIVE SplitFrom(_, _, _, _)
\* the pieces of cs[i..] between runs of characters of seps, cur being the
\* piece in progress; empty pieces at the two ends are kept, as split keeps them
SplitFrom(cs, seps, i, cur) ==
  IF i > Len(cs) THEN <<cur>>
  ELSE IF cs[i] \in seps
    THEN IF i > 1 /\ cs[i - 1] \in seps
           THEN SplitFrom(cs, seps, i + 1, cur)
           ELSE <<cur>> \o SplitFrom(cs, seps, i + 1, <<>>)
  ELSE SplitFrom(cs, seps, i + 1, Append(cur, cs[i]))

\* cs.split(/[seps]+/)
Split(cs, seps) == SplitFrom(cs, seps, 1, <<>>)

\* pieces.filter(s => s.trim().length > 0)
FilterNonBlank(pieces) == SelectSeq(pieces, LAMBDA p : NonBlank(p))

\* cs.replace(/^\d+\.?\s*/, ''): leading digits, a dot if one follows, and the
\* whitespace after them are removed
StripMarker(cs) ==
  LET n == Len(cs)
      d == IF \A i \in 1..n : IsDigit(cs[i]) THEN n
           ELSE (CHOOSE i \in 1..n : ~IsDigit(cs[i]) /\ \A j \in 1..(i - 1) : IsDigit(cs[j])) - 1
      e == IF d < n /\ cs[d + 1] = "." THEN d + 1 ELSE d
      f == IF \A i \in (e + 1)..n : IsSpace(cs[i]) THEN n
           ELSE (CHOOSE i \in (e + 1)..n :
                   ~IsSpace(cs[i]) /\ \A j \in (e + 1)..(i - 1) : IsSpace(cs[j])) - 1
  IN IF d = 0 THEN cs ELSE SubSeq(cs, f + 1, n)

\* cs.replace(/\s+/g, '-'): every run of whitespace becomes one hyphen
HyphenateSpaces(cs) ==
  LET kept == {i \in 1..Len(cs) : ~(IsSpace(cs[i]) /\ i > 1 /\ IsSpace(cs[i - 1]))}
      at(k) == CHOOSE i \in kept : Cardinality({j \in kept : j <= i}) = k
  IN [k \in 1..Cardinality(kept) |-> IF IsSpace(cs[at(k)]) THEN "-" ELSE cs[at(k)]]

----------------------------------------------------------------------------
(* Inputs: what the collaborator may reply, what a caller may post *)

\* a report in the canonical form the prompt asks for (route.ts 200-224); the
\* index and the level are the collaborator's own and need not agree with the scores
BaseReport ==
  [k \in {Canonical(Fields[i]) : i \in 1..Len(Fields)} |->
     CASE k = "Student Name"            -> Str("Asha")
       [] k = "Scores"                  -> Obj([c \in {"Financial Planning", "Support System"} |-> Num(80)])
       [] k = "Overall Readiness Index" -> Num(75)
       [] k = "Readiness Level"         -> Str("Very Good")
       [] k = "Strengths"               -> Str("Budgeting")
       [] k = "Gaps"                    -> Str("Visa process")
       [] k = "Recommendations"         -> Str("Start a savings plan")]

Deviations == {"canon", "camel", "absent", "falsy"}

\* the falsy value a field may carry: index 0, or an empty string
FalsyOf(f) == IF f = "index" THEN Num(0) ELSE Str("")

\* the object in which field f is written as d[f] says
Deviate(d) ==
  LET keyOf(f) == IF d[f] = "camel" THEN Camel(f) ELSE Canonical(f)
      present  == {f \in FieldSet : d[f] # "absent"}
  IN [k \in {keyOf(f) : f \in present} |->
        LET f == CHOOSE g \in present : keyOf(g) = k IN
        IF d[f] = "falsy" THEN FalsyOf(f) ELSE BaseReport[Canonical(f)]]

\* objects with at most MaxOdd deviating fields
Objects ==
  {Deviate(d) : d \in {e \in [FieldSet -> Deviations] :
                         Cardinality({f \in FieldSet : e[f] # "canon"}) <= MaxOdd}}

RECURSIVE TextsUpTo(_)
\* all texts of at most n tokens over "{", "}" and "w"
TextsUpTo(n) ==
  IF n = 0 THEN {<<>>}
  ELSE LET shorter == TextsUpTo(n - 1) IN
       shorter \cup {Append(p, c) : p \in shorter, c \in {LB, RB, W}}

Prose == TextsUpTo(MaxProse)
Tails == TextsUpTo(MaxTail)

NoObject == [k \in {"none"} |-> Undefined]

\* a reply of the collaborator: free text alone, the JSON text of an object,
\* or free text around the JSON text of the canonical report; sent remembers
\* the object it wrote
Replies ==
  {[content |-> p, sent |-> NoObject] : p \in Prose}
  \cup {[content |-> Stringify(o), sent |-> o] : o \in Objects}
  \cup {[content |-> p \o Stringify(BaseReport) \o t, sent |-> BaseReport] :
          p \in Prose, t \in Tails}

RECURSIVE SeqsUpTo(_, _)
\* all sequences of at most n elements of S
SeqsUpTo(S, n) ==
  IF n = 0 THEN {<<>>}
  ELSE LET shorter == SeqsUpTo(S, n - 1) IN
       shorter \cup {Append(q, x) : q \in shorter, x \in S}

\* o with member k set to v
WithMember(o, k, v) == [x \in (DOMAIN o) \cup {k} |-> IF x = k THEN v ELSE o[x]]

\* one element of topicScoresArray
Topic(name, correct, total) ==
  Obj([name |-> Str(name), correct |-> Num(correct), total |-> Num(total)])

\* the category results of an ordinary body
BaseTopics == <<Topic("Financial Planning", 4, 5), Topic("Support System", 4, 5)>>

\* bodies posted to the scoring route: the name absent, empty or given, the
\* category results absent or given
AnalyzeRequests ==
  {[userName |-> n, topicScoresArray |-> a] :
     n \in {Undefined, Str(""), Str("Asha")}, a \in {Undefined, Arr(BaseTopics)}}

\* category results: a section of the framework, a section under its old
\* name, a section the framework does not know; totals from 0, correct from
\* -1 to above the total
Topics ==
  {Topic(name, correct, total) :
     name \in {"Financial Planning", "Cultural Adaptability", "Astrology"},
     correct \in (-1)..(MaxTotal + 1), total \in 0..MaxTotal}

\* bodies whose prompt is examined: a name and any category results
ScoreRequests ==
  {[userName |-> Str("Asha"), topicScoresArray |-> Arr(topics)] :
     topics \in SeqsUpTo(Topics, MaxTopics)}

\* narrative strings: a letter, a blank, sentence punctuation, a comma, a digit
NarrativeStrings == {Text(cs) : cs \in SeqsUpTo({"a", " ", ".", ",", "1"}, MaxChars)}

\* elements of a narrative array: a plain entry, one with blanks around it, a
\* numbered one, one with a full stop inside, one with a comma inside, an
\* empty one
NarrativeItems ==
  {Text(<<"a">>), Text(<<" ", "a", " ">>), Text(<<"1", ".", " ", "a">>),
   Text(<<"a", ".", " ", "b">>), Text(<<"a", ",", " ", "b">>), Text(<<>>)}

NarrativeArrays == {Arr(items) : items \in SeqsUpTo(NarrativeItems, MaxItems)}

\* what Strengths, Gaps or Recommendations may hold
Narratives == NarrativeStrings \cup NarrativeArrays

\* student names: lower and upper case letters, blanks, hyphens, full stops
Names == {Text(cs) : cs \in SeqsUpTo({"a", "B", " ", "-", "."}, MaxName) \ {<<>>}}

\* an entry of 'Country Fit (Top 3)': the old format (a string), or an object
\* with a match, without one, or with match 0
CountryEntries ==
  {Str("Canada"),
   Obj([country |-> Str("Canada"), match |-> Num(90)]),
   Obj([country |-> Str("Canada")]),
   Obj([country |-> Str("Canada"), match |-> Num(0)])}

CountryLists == {Arr(entries) : entries \in SeqsUpTo(CountryEntries, MaxCountries)}

\* what new Date().toLocaleDateString('en-US', ...) may return
Dates == {"November 1, 2026", "November 2, 2026"}

\* bodies posted to the rendering route: the objects of the scoring side, and
\* the canonical report with a narrative, a name or a country list varied; a
\* varied narrative comes with one country so that its section is rendered
PdfRequests ==
  Objects
  \cup {WithMember(WithMember(BaseReport, k, n),
                   "Country Fit (Top 3)", Arr(<<Str("Canada")>>)) :
          k \in {"Strengths", "Gaps", "Recommendations"}, n \in Narratives}
  \cup {WithMember(BaseReport, "Student Name", n) : n \in Names}
  \cup {WithMember(BaseReport, "Country Fit (Top 3)", l) : l \in CountryLists}

\* messages of the errors chat.completions.create may reject with
ApiErrors == {"Connection error.", "401 Unauthorized"}

----------------------------------------------------------------------------
(* Scoring handler: constants and pure steps *)

\* route.ts 235
models == <<"sonar-pro", "sonar">>
\* a client configured with one more retry
maxRetriesRaised == 2 + 1

\* route.ts 231
maxRetries == 2

NoCompletion == [model |-> "", content |-> <<>>]
NoError      == [text |-> "", arg |-> ""]
NoResponse   == [status |-> 0, contentType |-> "", body |-> NoMembers]

Err(text, arg) == [text |-> text, arg |-> arg]

\* NextResponse.json(body, {status})
JsonResponse(status, body) ==
  [status |-> status, contentType |-> "application/json", body |-> body]

\* the catch block, route.ts 317-326
CatchError(error) ==
  JsonResponse(500, [error |-> "Failed to analyze results",
                     details |-> error,
                     stack |-> "Error: at POST"])

\* generatedText.match(/\{[\s\S]*\}/): from the first "{" to the last "}"
jsonMatch(text) ==
  LET opens  == {i \in 1..Len(text) : text[i].c = "{"}
      closes == {i \in 1..Len(text) : text[i].c = "}"}
  IN IF opens = {} THEN [found |-> FALSE, span |-> <<>>]
     ELSE LET first == CHOOSE i \in opens : \A j \in opens : i <= j
              after == {j \in closes : j > first}
          IN IF after = {} THEN [found |-> FALSE, span |-> <<>>]
             ELSE LET last == CHOOSE j \in after : \A l \in after : l <= j
                  IN [found |-> TRUE, span |-> SubSeq(text, first, last)]

\* a chain of checks that takes strengths under its lowerCamelCase key too
MissingFieldAcceptsCamel(llmResult) ==
  CASE ~Truthy(Get(llmResult, "Student Name")) /\ ~Truthy(Get(llmResult, "studentName"))
         -> "Student Name"
    [] ~Truthy(Get(llmResult, "Scores")) /\ ~Truthy(Get(llmResult, "scores"))
         -> "Scores"
    [] ~Truthy(Get(llmResult, "Overall Readiness Index")) -> "Overall Readiness Index"
    [] ~Truthy(Get(llmResult, "Readiness Level"))         -> "Readiness Level"
    [] ~Truthy(Get(llmResult, "Strengths")) /\ ~Truthy(Get(llmResult, "strengths"))
         -> "Strengths"
    [] ~Truthy(Get(llmResult, "Gaps"))                    -> "Gaps"
    [] ~Truthy(Get(llmResult, "Recommendations"))         -> "Recommendations"
    [] OTHER -> ""

\* a chain of checks that forgets the check of Gaps
MissingFieldSkipsGaps(llmResult) ==
  CASE ~Truthy(Get(llmResult, "Student Name")) /\ ~Truthy(Get(llmResult, "studentName"))
         -> "Student Name"
    [] ~Truthy(Get(llmResult, "Scores")) /\ ~Truthy(Get(llmResult, "scores"))
         -> "Scores"
    [] ~Truthy(Get(llmResult, "Overall Readiness Index")) -> "Overall Readiness Index"
    [] ~Truthy(Get(llmResult, "Readiness Level"))         -> "Readiness Level"
    [] ~Truthy(Get(llmResult, "Strengths"))               -> "Strengths"
    [] ~Truthy(Get(llmResult, "Recommendations"))         -> "Recommendations"
    [] OTHER -> ""

\* the chain of required-field checks, route.ts 291-312: the name of the
\* first field reported missing, "" when none is
MissingField(llmResult) ==
  CASE ~Truthy(Get(llmResult, "Student Name")) /\ ~Truthy(Get(llmResult, "studentName"))
         -> "Student Name"
    [] ~Truthy(Get(llmResult, "Scores")) /\ ~Truthy(Get(llmResult, "scores"))
         -> "Scores"
    [] ~Truthy(Get(llmResult, "Overall Readiness Index")) -> "Overall Readiness Index"
    [] ~Truthy(Get(llmResult, "Readiness Level"))         -> "Readiness Level"
    [] ~Truthy(Get(llmResult, "Strengths"))               -> "Strengths"
    [] ~Truthy(Get(llmResult, "Gaps"))                    -> "Gaps"
    [] ~Truthy(Get(llmResult, "Recommendations"))         -> "Recommendations"
    [] OTHER -> ""

\* a handler that derives the overall index from the scores it was given
\* before it returns the report
AfterCompletionRecomputes(content) ==
  IF content = <<>>
    THEN CatchError(Err("Empty response from LLM", ""))
  ELSE LET m == jsonMatch(content) IN
    IF ~m.found
      THEN CatchError(Err("No JSON found in LLM response", ""))
    ELSE LET parsed == JSONparse(m.span) IN
      IF ~parsed.ok
        THEN CatchError(Err("SyntaxError: Unexpected token in JSON", ""))
      ELSE LET llmResult == parsed.v.o
               missing   == MissingField(llmResult)
               scores    == OrElse(Get(llmResult, "Scores"), Get(llmResult, "scores")) IN
        IF missing # ""
          THEN CatchError(Err("LLM response missing required field", missing))
          ELSE JsonResponse(200,
                 [llmResult EXCEPT !["Overall Readiness Index"] =
                    Get(scores.o, "Financial Planning")])

\* everything after the loop has produced a completion, route.ts 272-315,
\* with the catch block 317-326: the response of the request
AfterCompletion(content) ==
  IF content = <<>>
    THEN CatchError(Err("Empty response from LLM", ""))
  ELSE LET m == jsonMatch(content) IN
    IF ~m.found
      THEN CatchError(Err("No JSON found in LLM response", ""))
    ELSE LET parsed == JSONparse(m.span) IN
      IF ~parsed.ok
        THEN CatchError(Err("SyntaxError: Unexpected token in JSON", ""))
      ELSE LET llmResult == parsed.v.o
               missing   == MissingField(llmResult) IN
        IF missing # ""
          THEN CatchError(Err("LLM response missing required field", missing))
          ELSE JsonResponse(200, llmResult)

\* a loop that walks the list of models from its end
ModelAtReversed(i) == models[Len(models) + 1 - i]

\* the model the i-th iteration of the for-of loop passes to create, route.ts 240-245
ModelAt(i) == models[i]

\* a catch block that keeps the first error it saw
RecordFirstError(previous, modelError) ==
  IF previous.text = "" THEN modelError ELSE previous

\* lastError = modelError, route.ts 263
RecordError(previous, modelError) == modelError

\* lastError?.message || 'Unknown error', route.ts 269
LastMessage(error) == IF error.text # "" THEN error.text ELSE "Unknown error"

\* the keys of frameworkMapping with the name and the weight they map to,
\* route.ts 110-158
frameworkMapping ==
  [k \in {"Academic Readiness", "Cultural Adaptability", "Career Clarity",
          "Study Abroad Readiness", "Career & Goal Alignment",
          "Personal & Cultural Readiness", "Practical Readiness",
          "Support System", "Financial Planning"} |->
     CASE k = "Academic Readiness"            -> [name |-> "Academic Readiness", weight |-> 20]
       [] k = "Cultural Adaptability"         -> [name |-> "Personal & Cultural Readiness", weight |-> 15]
       [] k = "Career Clarity"                -> [name |-> "Career & Goal Alignment", weight |-> 20]
       [] k = "Study Abroad Readiness"        -> [name |-> "Practical Readiness", weight |-> 10]
       [] k = "Career & Goal Alignment"       -> [name |-> "Career & Goal Alignment", weight |-> 20]
       [] k = "Personal & Cultural Readiness" -> [name |-> "Personal & Cultural Readiness", weight |-> 15]
       [] k = "Practical Readiness"           -> [name |-> "Practical Readiness", weight |-> 10]
       [] k = "Support System"                -> [name |-> "Support System", weight |-> 10]
       [] k = "Financial Planning"            -> [name |-> "Financial Planning", weight |-> 25]]

\* frameworkMapping[topic.name] || { name: topic.name, weight: 0, ... }, route.ts 160
Dimension(name) ==
  IF name \in DOMAIN frameworkMapping THEN frameworkMapping[name]
  ELSE [name |-> name, weight |-> 0]

\* Math.round((correct / total) * 100), route.ts 161: a division by zero
\* gives NaN or an infinity, which Math.round returns as they are; otherwise
\* the nearest integer, a half rounded up
Score(correct, total) ==
  IF total = 0
    THEN [kind |-> IF correct = 0 THEN "NaN"
                   ELSE IF correct > 0 THEN "Infinity" ELSE "-Infinity",
          n |-> 0]
  ELSE IF total > 0
    THEN [kind |-> "finite", n |-> ((200 * correct) + total) \div (2 * total)]
  ELSE [kind |-> "finite", n |-> ((200 * (0 - correct)) - total) \div (2 * (0 - total))]

\* score >= bound; a comparison with NaN is false
AtLeast(score, bound) ==
  \/ score.kind = "Infinity"
  \/ score.kind = "finite" /\ score.n >= bound

\* the ladder of the Interpretation, route.ts 162
Interpretation(score) ==
  IF AtLeast(score, 90) THEN "Excellent"
  ELSE IF AtLeast(score, 80) THEN "Very Good"
  ELSE IF AtLeast(score, 70) THEN "Good"
  ELSE IF AtLeast(score, 60) THEN "Satisfactory"
  ELSE "Needs Improvement"

\* the lines of TEST PERFORMANCE BY DIMENSION, one for each element of
\* topicScoresArray, route.ts 109-163
PromptLines(topicScoresArray) ==
  [i \in 1..Len(topicScoresArray.a) |->
     LET topic     == topicScoresArray.a[i].o
         dimension == Dimension(topic.name.s)
         score     == Score(topic.correct.n, topic.total.n)
     IN [name |-> dimension.name, weight |-> dimension.weight,
         score |-> score, interpretation |-> Interpretation(score)]]

\* one more HTTP request of the client for model m
Sends(m) == httpCalls' = [httpCalls EXCEPT ![m] = @ + 1]

\* the handler returns r
Returns(r) ==
  /\ response' = r
  /\ pc' = "done"

\* iteration i of the loop up to its await: create() is called and the timer
\* is set (route.ts 240-258); att, fl and tm are attempts, inflight and timers
\* as the event that led here left them
BeginAttempt(i, att, fl, tm) ==
  LET m == ModelAt(i) IN
  /\ modelIdx' = i
  /\ created' = Append(created, m)
  /\ Sends(m)
  /\ attempts' = [att EXCEPT ![m] = "pending"]
  /\ inflight' = fl \cup {m}
  /\ timers' = tm \cup {m}
  /\ pc' = "awaiting"
  /\ UNCHANGED response

\* a catch block that treats a timeout as the end of the request
CatchModelErrorFatalTimeout(modelError, att, fl, tm) ==
  /\ lastError' = RecordError(lastError, modelError)
  /\ IF modelIdx < Len(models) /\ modelError.text # "Model timeout"
       THEN BeginAttempt(modelIdx + 1, att, fl, tm)
       ELSE /\ Returns(CatchError(Err("All models failed. Last error",
                                      LastMessage(lastError'))))
            /\ attempts' = att
            /\ inflight' = fl
            /\ timers' = tm
            /\ UNCHANGED <<modelIdx, created, httpCalls>>

\* the catch block of the loop and what follows it (route.ts 261-270): the
\* next model is tried, or the request ends with the last error
CatchModelError(modelError, att, fl, tm) ==
  /\ lastError' = RecordError(lastError, modelError)
  /\ IF modelIdx < Len(models)
       THEN BeginAttempt(modelIdx + 1, att, fl, tm)
       ELSE /\ Returns(CatchError(Err("All models failed. Last error",
                                      LastMessage(lastError'))))
            /\ attempts' = att
            /\ inflight' = fl
            /\ timers' = tm
            /\ UNCHANGED <<modelIdx, created, httpCalls>>

----------------------------------------------------------------------------
(* Scoring handler: actions *)

Init ==
  /\ handler = "none"
  /\ pc = "idle"
  /\ request = NoMembers
  /\ modelIdx = 0
  /\ created = <<>>
  /\ httpCalls = [m \in {models[i] : i \in 1..Len(models)} |-> 0]
  /\ attempts = [m \in {models[i] : i \in 1..Len(models)} |-> "idle"]
  /\ inflight = {}
  /\ timers = {}
  /\ completion = NoCompletion
  /\ sent = NoObject
  /\ lastError = NoError
  /\ browser = [launched |-> 0, open |-> 0, pdfs |-> 0, buffer |-> "none"]
  /\ response = NoResponse
  /\ userPrompt = <<>>
  /\ htmlContent = NoMembers

\* a handler that looks for the API key before it looks for the name
PostAnalyzeWithKeyFirst(studentData, jsonOk, apiKey) ==
  /\ handler' = "analyze"
  /\ request' = IF jsonOk THEN studentData ELSE NoMembers
  /\ IF ~jsonOk
       THEN /\ Returns(CatchError(Err("SyntaxError: Unexpected token in JSON", "")))
            /\ UNCHANGED <<modelIdx, created, httpCalls, attempts, inflight, timers, userPrompt>>
     ELSE IF ~apiKey
       THEN /\ Returns(CatchError(Err("PERPLEXITY_API_KEY not configured", "")))
            /\ UNCHANGED <<modelIdx, created, httpCalls, attempts, inflight, timers, userPrompt>>
     ELSE IF ~Truthy(studentData.userName)
       THEN /\ Returns(JsonResponse(400, [error |-> "Missing user name"]))
            /\ UNCHANGED <<modelIdx, created, httpCalls, attempts, inflight, timers, userPrompt>>
     ELSE IF studentData.topicScoresArray.t # "array"
       THEN /\ Returns(CatchError(Err("TypeError: Cannot read properties of undefined", "")))
            /\ UNCHANGED <<modelIdx, created, httpCalls, attempts, inflight, timers, userPrompt>>
     ELSE /\ userPrompt' = PromptLines(studentData.topicScoresArray)
          /\ BeginAttempt(1, attempts, inflight, timers)
  /\ UNCHANGED <<completion, sent, lastError, browser, htmlContent>>

\* POST of the scoring route for the body studentData, up to its first await
\* on the collaborator (route.ts 26-258); jsonOk: the body parses, apiKey:
\* PERPLEXITY_API_KEY is set
PostAnalyzeWith(studentData, jsonOk, apiKey) ==
  /\ handler' = "analyze"
  /\ request' = IF jsonOk THEN studentData ELSE NoMembers
  /\ IF ~jsonOk
       THEN /\ Returns(CatchError(Err("SyntaxError: Unexpected token in JSON", "")))
            /\ UNCHANGED <<modelIdx, created, httpCalls, attempts, inflight, timers, userPrompt>>
     ELSE IF ~Truthy(studentData.userName)
       THEN /\ Returns(JsonResponse(400, [error |-> "Missing user name"]))
            /\ UNCHANGED <<modelIdx, created, httpCalls, attempts, inflight, timers, userPrompt>>
     ELSE IF ~apiKey
       THEN /\ Returns(CatchError(Err("PERPLEXITY_API_KEY not configured", "")))
            /\ UNCHANGED <<modelIdx, created, httpCalls, attempts, inflight, timers, userPrompt>>
     ELSE IF studentData.topicScoresArray.t # "array"
       THEN /\ Returns(CatchError(Err("TypeError: Cannot read properties of undefined", "")))
            /\ UNCHANGED <<modelIdx, created, httpCalls, attempts, inflight, timers, userPrompt>>
     ELSE /\ userPrompt' = PromptLines(studentData.topicScoresArray)
          /\ BeginAttempt(1, attempts, inflight, timers)
  /\ UNCHANGED <<completion, sent, lastError, browser, htmlContent>>

\* a body is posted to the scoring route
PostAnalyze ==
  /\ handler = "none" /\ pc = "idle"
  /\ \E studentData \in AnalyzeRequests, jsonOk \in BOOLEAN, apiKey \in BOOLEAN :
       PostAnalyzeWith(studentData, jsonOk, apiKey)

\* a body with category results of any kind is posted to the scoring route,
\* with the API key set
PostScores ==
  /\ handler = "none" /\ pc = "idle"
  /\ \E studentData \in ScoreRequests : PostAnalyzeWith(studentData, TRUE, TRUE)

\* the client re-sends a request that failed with a retryable error, at most
\* maxRetries times for one create() call (route.ts 227-232)
ClientRetries ==
  /\ handler = "analyze"
  /\ \E m \in inflight :
       /\ httpCalls[m] <= maxRetries
       /\ Sends(m)
  /\ UNCHANGED <<userPrompt, htmlContent>>
  /\ UNCHANGED <<handler, pc, request, modelIdx, created, attempts, inflight, timers,
                 completion, sent, lastError, browser, response>>

\* a loop that takes a completion without content for a failed attempt
ModelResolvesEmptyFallsBack ==
  /\ handler = "analyze" /\ pc = "awaiting"
  /\ LET m == ModelAt(modelIdx) IN
     /\ m \in inflight
     /\ \E r \in Replies :
          /\ completion' = [model |-> m, content |-> r.content]
          /\ sent' = r.sent
          /\ IF r.content = <<>>
               THEN CatchModelError(Err("Empty response from LLM", ""),
                                    [attempts EXCEPT ![m] = "fulfilled"],
                                    inflight \ {m}, timers)
               ELSE /\ Returns(AfterCompletion(r.content))
                    /\ attempts' = [attempts EXCEPT ![m] = "fulfilled"]
                    /\ inflight' = inflight \ {m}
                    /\ UNCHANGED <<modelIdx, created, httpCalls, timers, lastError>>
  /\ UNCHANGED <<handler, request, browser, userPrompt, htmlContent>>

\* the awaited create() resolves first: completion is set, the loop breaks and
\* the rest of the handler runs (route.ts 258-260, 268-326)
ModelResolves ==
  /\ handler = "analyze" /\ pc = "awaiting"
  /\ LET m == ModelAt(modelIdx) IN
     /\ m \in inflight
     /\ \E r \in Replies :
          /\ completion' = [model |-> m, content |-> r.content]
          /\ sent' = r.sent
          /\ Returns(AfterCompletion(r.content))
     /\ attempts' = [attempts EXCEPT ![m] = "fulfilled"]
     /\ inflight' = inflight \ {m}
  /\ UNCHANGED <<userPrompt, htmlContent>>
  /\ UNCHANGED <<handler, request, modelIdx, created, httpCalls, timers, lastError, browser>>

\* the awaited create() rejects: an error the client does not retry, or its
\* retries are used up; the catch block runs
ModelRejects ==
  /\ handler = "analyze" /\ pc = "awaiting"
  /\ LET m == ModelAt(modelIdx) IN
     /\ m \in inflight
     /\ \E e \in ApiErrors :
          CatchModelError(Err(e, ""), [attempts EXCEPT ![m] = e],
                          inflight \ {m}, timers)
  /\ UNCHANGED <<userPrompt, htmlContent>>
  /\ UNCHANGED <<handler, request, completion, sent, browser>>

\* the 45 s timer of the awaited attempt fires first: the race rejects with
\* 'Model timeout' and the catch block runs; create() itself is not aborted
TimeoutFires ==
  /\ handler = "analyze" /\ pc = "awaiting"
  /\ LET m == ModelAt(modelIdx) IN
     /\ m \in timers
     /\ CatchModelError(Err("Model timeout", ""), [attempts EXCEPT ![m] = "Model timeout"],
                        inflight, timers \ {m})
  /\ UNCHANGED <<userPrompt, htmlContent>>
  /\ UNCHANGED <<handler, request, completion, sent, browser>>

\* a create() whose race was already decided by its timer settles: nobody
\* awaits it any more
LateSettles ==
  /\ handler = "analyze"
  /\ \E m \in inflight :
       /\ attempts[m] # "pending"
       /\ inflight' = inflight \ {m}
  /\ UNCHANGED <<userPrompt, htmlContent>>
  /\ UNCHANGED <<handler, pc, request, modelIdx, created, httpCalls, attempts, timers,
                 completion, sent, lastError, browser, response>>

\* the timer of an attempt whose race was already decided fires: its
\* rejection is ignored
TimerExpires ==
  /\ handler = "analyze"
  /\ \E m \in timers :
       /\ attempts[m] # "pending"
       /\ timers' = timers \ {m}
  /\ UNCHANGED <<userPrompt, htmlContent>>
  /\ UNCHANGED <<handler, pc, request, modelIdx, created, httpCalls, attempts, inflight,
                 completion, sent, lastError, browser, response>>

----------------------------------------------------------------------------
(* Rendering handler *)

\* the catch block of the rendering route, generate-pdf/route.ts 118-121
CatchRenderError == JsonResponse(500, [error |-> "Failed to generate PDF"])

\* a formatToBulletPoints that splits the elements of an array at sentence
\* punctuation like it splits a string
formatToBulletPointsResplits(text) ==
  IF ~Truthy(text)
    THEN <<Spell("Information not available")>>
  ELSE IF text.t = "array"
    THEN LET RECURSIVE pieces(_)
             pieces(i) == IF i > Len(text.a) THEN <<>>
                          ELSE FilterNonBlank(Split(Chars(text.a[i]), SentenceEnd))
                               \o pieces(i + 1)
             points == pieces(1)
         IN [i \in 1..Len(points) |-> Trim(points[i])]
  ELSE IF text.t = "string"
    THEN IF text.s \in {"No strengths identified", "No gaps identified",
                        "No recommendations provided"}
           THEN <<Spell("Information not available")>>
           ELSE LET sentences == FilterNonBlank(Split(Chars(text), SentenceEnd))
                    points    == IF Len(sentences) > 1 THEN sentences
                                 ELSE FilterNonBlank(Split(Chars(text), ListSeparator))
                IN [i \in 1..Len(points) |-> StripMarker(Trim(points[i]))]
  ELSE <<Spell("Invalid input format")>>

\* one <li class="bullet-item"> per element, generate-pdf/route.ts 186-214:
\* the texts of the entries, in order
formatToBulletPoints(text) ==
  IF ~Truthy(text)
    THEN <<Spell("Information not available")>>
  ELSE IF text.t = "array"
    THEN [i \in 1..Len(text.a) |-> Trim(Chars(text.a[i]))]
  ELSE IF text.t = "string"
    THEN IF text.s \in {"No strengths identified", "No gaps identified",
                        "No recommendations provided"}
           THEN <<Spell("Information not available")>>
           ELSE LET sentences == FilterNonBlank(Split(Chars(text), SentenceEnd))
                    points    == IF Len(sentences) > 1 THEN sentences
                                 ELSE FilterNonBlank(Split(Chars(text), ListSeparator))
                IN [i \in 1..Len(points) |-> StripMarker(Trim(points[i]))]
  ELSE <<Spell("Invalid input format")>>

\* the items of the country matrix, generate-pdf/route.ts 288-304; index is
\* the 0-based index of map, so entry i of the sequence has index i - 1
generateCountryMatrix(countries) ==
  [i \in 1..Len(countries) |->
     LET countryData == countries[i]
         index       == i - 1
         matchScore  == IF countryData.t = "string"
                          THEN Num(100 - (index * 15))
                          ELSE OrElse(Get(countryData.o, "match"), Num(100))
     IN [rank |-> index + 1,
         country |-> IF countryData.t = "string" THEN countryData
                     ELSE Get(countryData.o, "country"),
         matchScore |-> matchScore]]

\* one country card, generate-pdf/route.ts 307-335
generateCountryCard(countryData, index) ==
  LET matchScore == IF countryData.t = "string"
                      THEN Num(100 - (index * 15))
                      ELSE OrElse(Get(countryData.o, "match"), Num(100))
  IN [rank |-> index + 1,
      country |-> IF countryData.t = "string" THEN countryData
                  ELSE Get(countryData.o, "country"),
      matchScore |-> matchScore]

\* the template literal generateHTMLContent returns (generate-pdf/route.ts
\* 355-1424), by what it shows: page 1 always (it does not show the name),
\* page 2 with the narrative lists, the matrix and the cards only when there
\* is a country-fit entry
Template(currentDate, scoresRaw, overallIndex, readinessLevel, strengths, gaps, recommendations, countryFit) ==
  LET countryPage == Len(countryFit.a) > 0 IN
  [currentDate |-> currentDate, scores |-> scoresRaw,
   overallIndex |-> overallIndex, readinessLevel |-> readinessLevel,
   countryPage |-> countryPage,
   strengths |-> IF countryPage THEN formatToBulletPoints(strengths) ELSE <<>>,
   gaps |-> IF countryPage THEN formatToBulletPoints(gaps) ELSE <<>>,
   recommendations |-> IF countryPage THEN formatToBulletPoints(recommendations) ELSE <<>>,
   matrix |-> IF countryPage THEN generateCountryMatrix(countryFit.a) ELSE <<>>,
   cards |-> IF countryPage
               THEN [i \in 1..Len(countryFit.a) |-> generateCountryCard(countryFit.a[i], i - 1)]
               ELSE <<>>]

\* a generateHTMLContent that forgets the check of strengths
generateHTMLContentSkipsStrengths(results, currentDate) ==
  LET studentName     == OrElse(Get(results, "Student Name"), Get(results, "studentName"))
      scoresRaw       == OrElse(Get(results, "scores"), Get(results, "Scores"))
      overallIndex    == OrElse(Get(results, "Overall Readiness Index"), Get(results, "overallIndex"))
      readinessLevel  == OrElse(Get(results, "Readiness Level"), Get(results, "readinessLevel"))
      strengths       == Get(results, "Strengths")
      gaps            == Get(results, "Gaps")
      recommendations == Get(results, "Recommendations")
      thrown ==
        CASE ~Truthy(studentName)           -> "Student Name is required"
          [] ~Truthy(scoresRaw)             -> "Scores data is required"
          [] overallIndex.t = "undefined"   -> "Overall Readiness Index is required"
          [] ~Truthy(readinessLevel)        -> "Readiness Level is required"
          [] ~Truthy(gaps)                  -> "Gaps analysis is required"
          [] ~Truthy(recommendations)       -> "Recommendations are required"
          [] OTHER -> ""
      countryFit == OrElse(Get(results, "Country Fit (Top 3)"), Arr(<<>>))
  IN [thrown |-> thrown,
      html |-> IF thrown # "" THEN NoMembers
               ELSE Template(currentDate, scoresRaw, overallIndex, readinessLevel,
                             strengths, gaps, recommendations, countryFit)]

\* generateHTMLContent (generate-pdf/route.ts 124-1424), currentDate being
\* what new Date() gave it: the message of the error thrown, "" when none is,
\* and the document returned
generateHTMLContent(results, currentDate) ==
  LET studentName     == OrElse(Get(results, "Student Name"), Get(results, "studentName"))
      scoresRaw       == OrElse(Get(results, "scores"), Get(results, "Scores"))
      overallIndex    == OrElse(Get(results, "Overall Readiness Index"), Get(results, "overallIndex"))
      readinessLevel  == OrElse(Get(results, "Readiness Level"), Get(results, "readinessLevel"))
      strengths       == Get(results, "Strengths")
      gaps            == Get(results, "Gaps")
      recommendations == Get(results, "Recommendations")
      thrown ==
        CASE ~Truthy(studentName)           -> "Student Name is required"
          [] ~Truthy(scoresRaw)             -> "Scores data is required"
          [] overallIndex.t = "undefined"   -> "Overall Readiness Index is required"
          [] ~Truthy(readinessLevel)        -> "Readiness Level is required"
          [] ~Truthy(strengths)             -> "Strengths analysis is required"
          [] ~Truthy(gaps)                  -> "Gaps analysis is required"
          [] ~Truthy(recommendations)       -> "Recommendations are required"
          [] OTHER -> ""
      countryFit == OrElse(Get(results, "Country Fit (Top 3)"), Arr(<<>>))
  IN [thrown |-> thrown,
      html |-> IF thrown # "" THEN NoMembers
               ELSE Template(currentDate, scoresRaw, overallIndex, readinessLevel,
                             strengths, gaps, recommendations, countryFit)]

\* the name part of the attachment filename, generate-pdf/route.ts 115
FilenamePart(results) ==
  ToLowerCase(HyphenateSpaces(
    Chars(OrElse(Get(results, "Student Name"), Get(results, "studentName")))))

\* new Response(pdfBuffer, ...), generate-pdf/route.ts 110-117; the filename
\* is "psychometric-report-", its name part, and ".pdf"
PdfResponse(pdfBuffer, results) ==
  [status |-> 200, contentType |-> "application/pdf", body |-> [document |-> pdfBuffer],
   filename |-> FilenamePart(results)]

\* POST of the rendering route up to the launch of the browser
\* (generate-pdf/route.ts 3-46)
PostPdf ==
  /\ handler = "none" /\ pc = "idle"
  /\ handler' = "pdf"
  /\ \E results \in PdfRequests, jsonOk \in BOOLEAN :
       /\ request' = IF jsonOk THEN results ELSE NoMembers
       /\ IF ~jsonOk
            THEN Returns(CatchRenderError)
          ELSE IF ~Truthy(Get(results, "Student Name")) /\ ~Truthy(Get(results, "studentName"))
            THEN Returns(JsonResponse(400, [error |-> "Missing student name"]))
          ELSE /\ pc' = "launching"
               /\ UNCHANGED response
  /\ UNCHANGED <<userPrompt, htmlContent>>
  /\ UNCHANGED <<modelIdx, created, httpCalls, attempts, inflight, timers,
                 completion, sent, lastError, browser>>

\* puppeteer.launch settles (generate-pdf/route.ts 27-46)
LaunchSettles ==
  /\ handler = "pdf" /\ pc = "launching"
  /\ \E ok \in BOOLEAN :
       IF ok
         THEN /\ browser' = [browser EXCEPT !.launched = @ + 1, !.open = @ + 1]
              /\ pc' = "page"
              /\ UNCHANGED response
         ELSE /\ Returns(CatchRenderError)
              /\ UNCHANGED browser
  /\ UNCHANGED <<userPrompt, htmlContent>>
  /\ UNCHANGED <<handler, request, modelIdx, created, httpCalls, attempts, inflight,
                 timers, completion, sent, lastError>>

\* a handler that goes on to load the page whatever generateHTMLContent threw
PageSettlesEmitsAnyway ==
  /\ handler = "pdf" /\ pc = "page"
  /\ \E ok \in BOOLEAN, currentDate \in Dates :
       IF ok
         THEN /\ htmlContent' = generateHTMLContent(request, currentDate).html
              /\ pc' = "loading"
              /\ UNCHANGED response
         ELSE /\ Returns(CatchRenderError)
              /\ UNCHANGED htmlContent
  /\ UNCHANGED userPrompt
  /\ UNCHANGED <<handler, request, modelIdx, created, httpCalls, attempts, inflight,
                 timers, completion, sent, lastError, browser>>

\* browser.newPage settles, then generateHTMLContent runs with the date of
\* the moment (generate-pdf/route.ts 48-56, 124-129)
PageSettles ==
  /\ handler = "pdf" /\ pc = "page"
  /\ \E ok \in BOOLEAN, currentDate \in Dates :
       LET generated == generateHTMLContent(request, currentDate) IN
       IF ok /\ generated.thrown = ""
         THEN /\ htmlContent' = generated.html
              /\ pc' = "loading"
              /\ UNCHANGED response
         ELSE /\ Returns(CatchRenderError)
              /\ UNCHANGED htmlContent
  /\ UNCHANGED userPrompt
  /\ UNCHANGED <<handler, request, modelIdx, created, httpCalls, attempts, inflight,
                 timers, completion, sent, lastError, browser>>

\* setViewport, emulateMediaType and setContent settle, the waits pass and
\* page.pdf is called (generate-pdf/route.ts 58-94)
ContentSettles ==
  /\ handler = "pdf" /\ pc = "loading"
  /\ \E ok \in BOOLEAN :
       IF ok
         THEN /\ browser' = [browser EXCEPT !.pdfs = @ + 1]
              /\ pc' = "printing"
              /\ UNCHANGED response
         ELSE /\ Returns(CatchRenderError)
              /\ UNCHANGED browser
  /\ UNCHANGED <<userPrompt, htmlContent>>
  /\ UNCHANGED <<handler, request, modelIdx, created, httpCalls, attempts, inflight,
                 timers, completion, sent, lastError>>

\* a handler that calls page.pdf once more after it rejected
PdfSettlesRetries ==
  /\ handler = "pdf" /\ pc = "printing"
  /\ \E outcome \in {"rejected", "empty", "filled"} :
       CASE outcome = "rejected" ->
              IF browser.pdfs < 2
                THEN /\ browser' = [browser EXCEPT !.pdfs = @ + 1]
                     /\ UNCHANGED <<pc, response>>
                ELSE /\ Returns(CatchRenderError)
                     /\ browser' = [browser EXCEPT !.buffer = outcome]
         [] outcome = "empty" ->
              /\ browser' = [browser EXCEPT !.open = @ - 1, !.buffer = outcome]
              /\ Returns(JsonResponse(500, [error |-> "PDF generation failed - empty buffer"]))
         [] outcome = "filled" ->
              /\ browser' = [browser EXCEPT !.open = @ - 1, !.buffer = outcome]
              /\ Returns(PdfResponse(htmlContent, request))
  /\ UNCHANGED <<userPrompt, htmlContent>>
  /\ UNCHANGED <<handler, request, modelIdx, created, httpCalls, attempts, inflight,
                 timers, completion, sent, lastError>>

\* page.pdf settles: it rejects, or returns an empty or a filled buffer
\* (generate-pdf/route.ts 81-121)
PdfSettles ==
  /\ handler = "pdf" /\ pc = "printing"
  /\ \E outcome \in {"rejected", "empty", "filled"} :
       CASE outcome = "rejected" ->
              /\ Returns(CatchRenderError)
              /\ browser' = [browser EXCEPT !.buffer = outcome]
         [] outcome = "empty" ->
              /\ browser' = [browser EXCEPT !.open = @ - 1, !.buffer = outcome]
              /\ Returns(JsonResponse(500, [error |-> "PDF generation failed - empty buffer"]))
         [] outcome = "filled" ->
              /\ browser' = [browser EXCEPT !.open = @ - 1, !.buffer = outcome]
              /\ Returns(PdfResponse(htmlContent, request))
  /\ UNCHANGED <<userPrompt, htmlContent>>
  /\ UNCHANGED <<handler, request, modelIdx, created, httpCalls, attempts, inflight,
                 timers, completion, sent, lastError>>

----------------------------------------------------------------------------
(* The system: one request, served by one of the two routes *)

AnalyzeNext ==
  \/ PostAnalyze
  \/ ClientRetries
  \/ ModelResolves
  \/ ModelRejects
  \/ TimeoutFires
  \/ LateSettles
  \/ TimerExpires

RenderNext ==
  \/ PostPdf
  \/ LaunchSettles
  \/ PageSettles
  \/ ContentSettles
  \/ PdfSettles

Next == AnalyzeNext \/ RenderNext

Spec == Init /\ [][Next]_vars

\* the scoring route alone, up to the prompt it sends, for category results
\* of any kind
ScorerNext == PostScores

ScorerSpec == Init /\ [][ScorerNext]_vars

----------------------------------------------------------------------------
(* Vocabulary of the properties *)

Primary   == "sonar-pro"
Alternate == "sonar"

\* the race of the attempt for m ended in a rejection
Failed(m) == attempts[m] \notin {"idle", "pending", "fulfilled"}

\* every key under which a report field can be written
ReportKeys == {Canonical(f) : f \in FieldSet} \cup {Camel(f) : f \in FieldSet}

\* the response is an error object: an error entry and no report field
IsErrorBody(r) ==
  /\ r.contentType = "application/json"
  /\ "error" \in DOMAIN r.body
  /\ DOMAIN r.body \cap ReportKeys = {}

\* the scoring request has ended
AnalyzeDone == handler = "analyze" /\ pc = "done"

\* the rendering request has ended
RenderDone == handler = "pdf" /\ pc = "done"

\* the scoring request has ended after JSON.parse returned an object
HasParsed ==
  /\ AnalyzeDone
  /\ completion.model # ""
  /\ jsonMatch(completion.content).found
  /\ JSONparse(jsonMatch(completion.content).span).ok

\* the object JSON.parse returned
Parsed == JSONparse(jsonMatch(completion.content).span).v.o

\* field f is in o under neither of its spellings
Missing(o, f) == Canonical(f) \notin DOMAIN o /\ Camel(f) \notin DOMAIN o

\* field f has a value in o under one of its spellings
Supplied(o, f) == Truthy(Get(o, Canonical(f))) \/ Truthy(Get(o, Camel(f)))

----------------------------------------------------------------------------
(* C1: the models are attempted in list order: sonar-pro is always the      *)
(* first model attempted, sonar is attempted only as the second one and     *)
(* only once the sonar-pro attempt has failed (error or timeout), and when  *)
(* the sonar-pro attempt succeeds sonar is never called.                    *)
C1_ListOrder ==
  /\ Len(created) <= Len(models)
  /\ created # <<>> => created[1] = Primary
  /\ \A i \in 1..Len(created) :
       created[i] = Alternate => i = Len(models) /\ Failed(Primary)
  /\ attempts[Primary] = "fulfilled" =>
       /\ created = <<Primary>>
       /\ httpCalls[Alternate] = 0
       /\ attempts[Alternate] = "idle"

\* the alternate model answered after the primary attempt had failed
C1_Witness ==
  /\ AnalyzeDone
  /\ created = <<Primary, Alternate>>
  /\ Failed(Primary)
  /\ attempts[Alternate] = "fulfilled"

(* C2: when every attempt has failed the request ends with status 500 and  *)
(* an error object without a report, whose detail carries the message of    *)
(* the last failed attempt, the one for sonar, not that of sonar-pro.       *)
C2_AllFailLastError ==
  (Failed(Primary) /\ Failed(Alternate)) =>
    /\ AnalyzeDone
    /\ response.status = 500
    /\ IsErrorBody(response)
    /\ response.body.details = Err("All models failed. Last error", attempts[Alternate])
    /\ attempts[Primary] # attempts[Alternate] =>
         response.body.details.arg # attempts[Primary]

\* both attempts failed, with different errors
C2_Witness ==
  /\ AnalyzeDone
  /\ attempts[Primary] = "Model timeout"
  /\ attempts[Alternate] = "401 Unauthorized"
  /\ response.status = 500

(* C3: a timeout is a failed attempt, not a fatal abort: when the          *)
(* sonar-pro attempt times out the loop goes on to sonar without answering, *)
(* and when sonar then succeeds the response is built from sonar's          *)
(* completion (status 200 with the report for a well-formed reply); a late  *)
(* settlement of the timed-out call changes neither completion nor the      *)
(* response.                                                                *)
C3_TimeoutThenAlternate ==
  (attempts[Primary] = "Model timeout" /\ attempts[Alternate] = "fulfilled") =>
    /\ AnalyzeDone
    /\ completion.model = Alternate
    /\ response = AfterCompletion(completion.content)
    /\ completion.content = Stringify(BaseReport) =>
         response = JsonResponse(200, BaseReport)

C3_TimeoutStep ==
  /\ (attempts[Primary] = "pending" /\ attempts'[Primary] = "Model timeout") =>
       /\ pc' = "awaiting"
       /\ response' = NoResponse
       /\ created' = <<Primary, Alternate>>
       /\ attempts'[Alternate] = "pending"
  /\ \A m \in inflight :
       (m \notin inflight' /\ attempts[m] = "Model timeout") =>
         UNCHANGED <<pc, completion, lastError, response>>

C3_TimeoutIsFailedAttempt == [](C3_TimeoutThenAlternate) /\ [][C3_TimeoutStep]_vars

\* sonar-pro timed out, sonar answered with a report, and the timed-out call
\* has settled since
C3_Witness ==
  /\ AnalyzeDone
  /\ attempts[Primary] = "Model timeout"
  /\ attempts[Alternate] = "fulfilled"
  /\ Primary \notin inflight
  /\ response.status = 200

C6_EitherSpellingAccepted ==
  HasParsed =>
    LET llmResult == Parsed IN
    (\A f \in FieldSet : Supplied(llmResult, f)) =>
      /\ response.status = 200
      /\ response.body = llmResult

(* C7 as stated: a reply made of prose followed by one well-formed JSON     *)
(* object with all required fields yields that object, whatever the prose   *)
(* contains, braces included.                                               *)
C7_ProseThenObject ==
  (/\ AnalyzeDone
   /\ completion.model # ""
   /\ \E p \in Prose : completion.content = p \o Stringify(BaseReport)) =>
    response = JsonResponse(200, BaseReport)

\* no span of text parses as a JSON object
NoJsonSpan(text) ==
  \A i \in 1..Len(text) :
    text[i].c = "{" =>
      \A j \in i..Len(text) :
        text[j].c = "}" => ~JSONparse(SubSeq(text, i, j)).ok

(* C8 as stated: when the reply has no span that parses as a JSON object,   *)
(* be it that it has no "{" or that the span from its first "{" to a "}"    *)
(* is not valid JSON, the request fails with the error 'No JSON found'.     *)
C8_NoJsonFound ==
  (/\ AnalyzeDone
   /\ completion.model # ""
   /\ completion.content # <<>>
   /\ NoJsonSpan(completion.content)) =>
    /\ response.status = 500
    /\ response.body.details.text = "No JSON found in LLM response"

(* C9: a successful scoring request returns the object the collaborator     *)
(* wrote, as parsed: no member is added, removed or recomputed; the overall *)
(* index and the level are the ones the collaborator reported.              *)
C9_ReportUnchanged ==
  (AnalyzeDone /\ response.status = 200) =>
    /\ HasParsed
    /\ response.contentType = "application/json"
    /\ response.body = Parsed
    /\ response.body = sent

\* a report came back whose index (75) differs from what its scores (80)
\* would give
C9_Witness ==
  /\ AnalyzeDone
  /\ response.status = 200
  /\ Get(response.body, "Overall Readiness Index") = Num(75)
  /\ Get(Get(response.body, "Scores").o, "Financial Planning") = Num(80)

\* a response 200 only goes to a request nothing failed for: every required
\* field was supplied and the collaborator delivered
C10_Outcome ==
  pc = "done" =>
    \/ /\ response.status \in {400, 500}
       /\ IsErrorBody(response)
    \/ /\ handler = "analyze"
       /\ response.status = 200
       /\ response.contentType = "application/json"
       /\ Truthy(request.userName)
       /\ attempts[completion.model] = "fulfilled"
       /\ \A f \in FieldSet : Supplied(response.body, f)
    \/ /\ handler = "pdf"
       /\ response.status = 200
       /\ response.contentType = "application/pdf"
       /\ browser.launched = 1
       /\ browser.buffer = "filled"
       /\ \A f \in FieldSet : Supplied(request, f)

\* once the response is returned nothing is tried again and it stays
C10_Terminal ==
  pc = "done" =>
    /\ pc' = "done"
    /\ response' = response
    /\ created' = created
    /\ browser' = browser

(* C10: in both handlers a validation or collaborator failure ends the      *)
(* request: the response is an error object with status 400 or 500, never   *)
(* a report or a PDF, and nothing is attempted again after it.              *)
C10_FailureIsTerminal == [](C10_Outcome) /\ [][C10_Terminal]_vars

\* the rendering request failed on a missing field after the browser was
\* launched
C10_Witness ==
  /\ RenderDone
  /\ browser.launched = 1
  /\ Missing(request, "strengths")
  /\ response.status = 500
  /\ IsErrorBody(response)

----------------------------------------------------------------------------
(* Vocabulary of the properties of the rendering route *)

\* the message generateHTMLContent throws for field f
RequiredMessage(f) ==
  CASE f = "name"            -> "Student Name is required"
    [] f = "scores"          -> "Scores data is required"
    [] f = "index"           -> "Overall Readiness Index is required"
    [] f = "level"           -> "Readiness Level is required"
    [] f = "strengths"       -> "Strengths analysis is required"
    [] f = "gaps"            -> "Gaps analysis is required"
    [] f = "recommendations" -> "Recommendations are required"

\* the message of the error generateHTMLContent throws for results, "" when
\* it throws none; the date has no part in it
Thrown(results) == generateHTMLContent(results, CHOOSE d \in Dates : TRUE).thrown

\* a body was posted to the rendering route and it parsed
RenderRequest == handler = "pdf" /\ DOMAIN request # {}

\* the rendering request has ended with a document
Emitted == RenderDone /\ response.contentType = "application/pdf"

\* the narrative fields
NarrativeFields == {"strengths", "gaps", "recommendations"}

\* the bullet list the document shows for narrative field f
Section(document, f) ==
  CASE f = "strengths"       -> document.strengths
    [] f = "gaps"            -> document.gaps
    [] f = "recommendations" -> document.recommendations

\* the array of the strings bullets
AsArray(bullets) == Arr([i \in 1..Len(bullets) |-> Text(bullets[i])])

\* b starts with digits followed by a full stop
HasMarker(b) ==
  \E i \in 2..Len(b) : b[i] = "." /\ \A j \in 1..(i - 1) : IsDigit(b[j])

\* entry of a country list that carries no match percentage
NoMatch(entry) == entry.t = "string" \/ "match" \notin DOMAIN entry.o

(* C11: when the name, the score mapping, the overall index, the tier or   *)
(* one of strengths, gaps, recommendations is absent from the body posted   *)
(* to the rendering route, page.pdf is never called and the request ends    *)
(* with an error response and no document: status 400 before the browser is *)
(* launched when the name is absent, otherwise generateHTMLContent throws   *)
(* the error of a field the body does not supply.                           *)
C11_MissingFieldNoDocument ==
  (RenderRequest /\ \E f \in FieldSet : Missing(request, f)) =>
    /\ pc \notin {"loading", "printing"}
    /\ browser.pdfs = 0
    /\ \E g \in FieldSet :
         /\ Thrown(request) = RequiredMessage(g)
         /\ ~Truthy(Get(request, Canonical(g)))
    /\ pc = "done" =>
         /\ response.status \in {400, 500}
         /\ IsErrorBody(response)
         /\ "document" \notin DOMAIN response.body
         /\ Missing(request, "name") =>
              /\ response = JsonResponse(400, [error |-> "Missing student name"])
              /\ browser.launched = 0

\* the browser was launched for a body without Gaps, and the request failed
C11_Witness ==
  /\ RenderDone
  /\ DOMAIN request = (DOMAIN BaseReport) \ {"Gaps"}
  /\ browser.launched = 1
  /\ Thrown(request) = "Gaps analysis is required"
  /\ response.status = 500

(* C12 as stated: when a request fails because a required field is         *)
(* missing, the error response names a missing field, on the scoring route  *)
(* and on the rendering route alike (there, once the name check has failed  *)
(* or the browser is up and generateHTMLContent has run).                   *)
C12_ErrorNamesField ==
  /\ (HasParsed /\ \E f \in FieldSet : Missing(Parsed, f)) =>
       \E g \in FieldSet :
         /\ ~Truthy(Get(Parsed, Canonical(g)))
         /\ response.body.details = Err("LLM response missing required field", Canonical(g))
  /\ (/\ RenderDone /\ RenderRequest
      /\ \E f \in FieldSet : Missing(request, f)
      /\ browser.launched = 1 \/ ~Supplied(request, "name")) =>
       \E g \in FieldSet :
         /\ ~Truthy(Get(request, Canonical(g)))
         /\ \/ response.body.error = RequiredMessage(g)
            \/ g = "name" /\ response.body.error = "Missing student name"
            \/ /\ "details" \in DOMAIN response.body
               /\ response.body.details = RequiredMessage(g)

(* C13 as stated: an error response of the scoring route holds an error     *)
(* kind and a detail and nothing else; it has no stack trace.               *)
C13_ErrorKindAndDetailOnly ==
  (AnalyzeDone /\ response.status # 200) =>
    /\ DOMAIN response.body \subseteq {"error", "details"}
    /\ "stack" \notin DOMAIN response.body

(* C14 as stated: in a document that shows the narrative sections, each of  *)
(* the three lists has at least one entry.                                  *)
C14_NoEmptySection ==
  (Emitted /\ response.body.document.countryPage) =>
    \A f \in NarrativeFields : Len(Section(response.body.document, f)) >= 1

(* C15: for a narrative given as an array, the list has exactly one entry   *)
(* per element, in the order of the elements, each the element without its  *)
(* surrounding blanks, so an element that is a bullet string already is     *)
(* shown as it is and no element is split at a full stop, comma or          *)
(* semicolon; and formatting the entries of any list once more, as an       *)
(* array, gives the same list.                                              *)
C15_SequencesAreKept ==
  (Emitted /\ response.body.document.countryPage) =>
    \A f \in NarrativeFields :
      LET text    == Get(request, Canonical(f))
          bullets == Section(response.body.document, f)
      IN /\ formatToBulletPoints(AsArray(bullets)) = bullets
         /\ text.t = "array" =>
              /\ Len(bullets) = Len(text.a)
              /\ \A i \in 1..Len(text.a) :
                   /\ bullets[i] = Trim(Chars(text.a[i]))
                   /\ Trim(Chars(text.a[i])) = Chars(text.a[i]) =>
                        bullets[i] = Chars(text.a[i])

\* an array of two elements, one with a full stop and one with a comma
\* inside, was rendered as two entries
C15_Witness ==
  /\ Emitted
  /\ Get(request, "Strengths") =
       Arr(<<Text(<<"a", ".", " ", "b">>), Text(<<"a", ",", " ", "b">>)>>)
  /\ response.body.document.strengths = <<(<<"a", ".", " ", "b">>), (<<"a", ",", " ", "b">>)>>

(* C16 as stated: every entry of a narrative list, from an array or from a  *)
(* string, has no blank at either end and no leading enumeration marker.    *)
C16_EntriesStripped ==
  (Emitted /\ response.body.document.countryPage) =>
    \A f \in NarrativeFields :
      LET bullets == Section(response.body.document, f) IN
      \A i \in 1..Len(bullets) :
        /\ Trim(bullets[i]) = bullets[i]
        /\ ~HasMarker(bullets[i])

(* C17 as stated: an entry of the country list without a match percentage  *)
(* is shown with 100 - 15 * (rank - 1), in the matrix and on its card.      *)
C17_FallbackByRank ==
  Emitted =>
    LET entries  == Get(request, "Country Fit (Top 3)").a
        document == response.body.document
    IN \A i \in 1..Len(entries) :
         NoMatch(entries[i]) =>
           /\ document.matrix[i].matchScore = Num(100 - (15 * (i - 1)))
           /\ document.cards[i].matchScore = Num(100 - (15 * (i - 1)))

(* C18 as stated: for a report with every required field, whatever the     *)
(* number of its country-fit entries, zero included, the document shows the *)
(* three narrative lists.                                                   *)
C18_AnyNumberOfCountries ==
  (/\ RenderDone
   /\ browser.buffer = "filled"
   /\ \A f \in FieldSet : Get(request, Canonical(f)) = BaseReport[Canonical(f)]) =>
    /\ Emitted
    /\ response.body.document.countryPage
    /\ \A f \in NarrativeFields :
         Section(response.body.document, f) =
           formatToBulletPoints(Get(request, Canonical(f)))

(* C19 as stated: the name part of the filename holds only letters, digits  *)
(* and single separators.                                                   *)
C19_FilenameCollapsed ==
  Emitted =>
    LET name == response.filename IN
    /\ \A i \in 1..Len(name) : IsAlnum(name[i]) \/ name[i] = "-"
    /\ \A i \in 1..(Len(name) - 1) : ~(name[i] = "-" /\ name[i + 1] = "-")

\* the browser is launched at most once and page.pdf is called at most once;
\* after page.pdf rejected or returned nothing the request has ended with an
\* error response
C20_AtMostOnce ==
  /\ browser.launched <= 1
  /\ browser.pdfs <= 1
  /\ browser.buffer \in {"rejected", "empty"} =>
       /\ RenderDone
       /\ response.status = 500
       /\ IsErrorBody(response)

\* a launch that gives no browser ends the request with an error response,
\* whatever page.pdf does ends the request, and nothing follows the response
C20_FailureEnds ==
  handler = "pdf" =>
    /\ (pc = "launching" /\ browser'.launched = browser.launched) =>
         /\ pc' = "done"
         /\ response'.status = 500
         /\ IsErrorBody(response')
    /\ pc = "printing" => pc' = "done"
    /\ pc = "done" => browser' = browser

(* C20: the rendering route never retries the renderer: in one request the  *)
(* browser is launched at most once and the PDF is generated at most once,  *)
(* and a failure of either ends the request with an error response.         *)
C20_RendererNotRetried == [](C20_AtMostOnce) /\ [][C20_FailureEnds]_vars

\* page.pdf was called once, rejected, and the request ended with an error
C20_Witness ==
  /\ RenderDone
  /\ browser.launched = 1
  /\ browser.pdfs = 1
  /\ browser.buffer = "rejected"
  /\ response = CatchRenderError

----------------------------------------------------------------------------
(* Vocabulary of the last properties *)

\* the category results of the body posted to the scoring route
TopicsPosted ==
  IF handler = "analyze" /\ DOMAIN request # {} THEN request.topicScoresArray.a ELSE <<>>

\* a category result no percentage can be computed from
InvalidResult(topic) ==
  \/ topic.o.total.n <= 0
  \/ topic.o.correct.n > topic.o.total.n
  \/ topic.o.correct.n < 0

\* the scoring request was rejected before anything was computed or sent
RejectedUnprocessed ==
  /\ AnalyzeDone
  /\ response.status >= 400
  /\ IsErrorBody(response)
  /\ userPrompt = <<>>
  /\ created = <<>>

\* the six tiers with their lower-inclusive boundaries
Tier(v) ==
  IF v >= 90 THEN "Excellent"
  ELSE IF v >= 80 THEN "Very Good"
  ELSE IF v >= 70 THEN "Good"
  ELSE IF v >= 60 THEN "Satisfactory"
  ELSE IF v >= 50 THEN "Needs Improvement"
  ELSE "Low"

\* o supplies every required field under its canonical key, the overall
\* index being 0
ZeroIndex(o) ==
  /\ \A f \in FieldSet \ {"index"} : Truthy(Get(o, Canonical(f)))
  /\ Get(o, "Overall Readiness Index") = Num(0)

(* C21 as stated: when the scoring route has returned its response, no     *)
(* create() call is in flight any more and no timer is pending.             *)
C21_NothingOutlives ==
  AnalyzeDone => inflight = {} /\ timers = {}

(* C22 as stated: the document the rendering route emits is the one         *)
(* generateHTMLContent gives for the same record on any run, whatever the   *)
(* date.                                                                    *)
C22_SameRecordSameDocument ==
  Emitted =>
    \A d \in Dates : generateHTMLContent(request, d).html = response.body.document

(* C23 as stated: a category result with total <= 0, correct > total or    *)
(* correct < 0 makes the request fail with an error, no percentage being    *)
(* produced; for any other result the percentage is round(100 * correct /   *)
(* total), within 0..100.                                                   *)
C23_InvalidInputRejected ==
  \A i \in 1..Len(TopicsPosted) :
    IF InvalidResult(TopicsPosted[i])
      THEN RejectedUnprocessed
      ELSE userPrompt # <<>> =>
             /\ userPrompt[i].score.kind = "finite"
             /\ userPrompt[i].score.n \in 0..100
             /\ userPrompt[i].score.n =
                  (((200 * TopicsPosted[i].o.correct.n) + TopicsPosted[i].o.total.n)
                     \div (2 * TopicsPosted[i].o.total.n))

(* C24 as stated: a category outside the weighted set makes the request     *)
(* fail with an error; it is not passed on with weight 0.                   *)
C24_UnknownCategoryRejected ==
  \A i \in 1..Len(TopicsPosted) :
    TopicsPosted[i].o.name.s \notin DOMAIN frameworkMapping => RejectedUnprocessed

(* C25 as stated: a percentage within 0..100 is classified by the six       *)
(* tiers; below 50 it is Low.                                               *)
C25_SixTiers ==
  \A i \in 1..Len(userPrompt) :
    (userPrompt[i].score.kind = "finite" /\ userPrompt[i].score.n \in 0..100) =>
      userPrompt[i].interpretation = Tier(userPrompt[i].score.n)

(* C26: a body without a name is answered with status 400 before any        *)
(* collaborator is contacted: on the scoring route create() is never called *)
(* and no request is sent for it, whether the API key is set or not; on the *)
(* rendering route the browser is never launched.                           *)
C26_NameCheckedFirst ==
  /\ (handler = "analyze" /\ DOMAIN request # {} /\ ~Truthy(request.userName)) =>
       /\ pc = "done"
       /\ response = JsonResponse(400, [error |-> "Missing user name"])
       /\ created = <<>>
       /\ \A i \in 1..Len(models) : httpCalls[models[i]] = 0
       /\ inflight = {} /\ timers = {}
  /\ (RenderRequest /\ ~Supplied(request, "name")) =>
       /\ pc = "done"
       /\ response = JsonResponse(400, [error |-> "Missing student name"])
       /\ browser.launched = 0
       /\ browser.pdfs = 0

\* a body without userName was answered 400 by the scoring route
C26_Witness ==
  /\ AnalyzeDone
  /\ DOMAIN request # {}
  /\ request.userName = Undefined
  /\ request.topicScoresArray = Arr(BaseTopics)
  /\ response.status = 400
  /\ created = <<>>

(* C27 as stated: when the rendering route has returned, every browser it   *)
(* launched is closed.                                                      *)
C27_BrowserClosed ==
  RenderDone => browser.open = 0

(* C28: an object the scoring route returns, having passed its validation,  *)
(* passes the name check of the rendering route and every required-field    *)
(* check of generateHTMLContent.                                            *)
C28_ValidatedReportRenders ==
  (AnalyzeDone /\ response.status = 200) =>
    /\ Truthy(Get(response.body, "Student Name")) \/ Truthy(Get(response.body, "studentName"))
    /\ Thrown(response.body) = ""

\* a report with the name and the scores under their lowerCamelCase keys was
\* returned by the scoring route
C28_Witness ==
  /\ AnalyzeDone
  /\ response.status = 200
  /\ "studentName" \in DOMAIN response.body
  /\ "scores" \in DOMAIN response.body
  /\ Thrown(response.body) = ""

(* C29 as stated: a record with every required field and the overall index *)
(* 0 is accepted by the validation of the scoring route and by the          *)
(* required-field checks of the rendering route.                            *)
C29_ZeroIndexAccepted ==
  /\ (HasParsed /\ ZeroIndex(Parsed)) => response.status = 200
  /\ (RenderDone /\ ZeroIndex(request)) => Thrown(request) = ""

(* C30: a completion without content ends the loop as a success: the       *)
(* attempt counts as fulfilled, the request ends with status 500 and the    *)
(* error 'Empty response from LLM', and when the completion came from       *)
(* sonar-pro, sonar is not called.                                          *)
C30_EmptyContentEndsLoop ==
  (completion.model # "" /\ completion.content = <<>>) =>
    /\ AnalyzeDone
    /\ response = CatchError(Err("Empty response from LLM", ""))
    /\ attempts[completion.model] = "fulfilled"
    /\ completion.model = Primary =>
         /\ created = <<Primary>>
         /\ httpCalls[Alternate] = 0
         /\ attempts[Alternate] = "idle"

\* sonar-pro returned a completion without content and the request failed
C30_Witness ==
  /\ AnalyzeDone
  /\ completion = [model |-> Primary, content |-> <<>>]
  /\ created = <<Primary>>
  /\ response.status = 500

====
